---- MODULE Spec2Model ----
(***************************************************************************)
(* Model of the OTT streaming backend (src/main.py): the user profile      *)
(* handlers get_user, toggle_favorite and update_history running as        *)
(* concurrent requests against the userprofile collection.  Every store    *)
(* call (find_one, insert, update_one) is one atomic step; the Python code *)
(* between two store calls belongs to the step of the store call before    *)
(* it.  progress values are in tenths (10 stands for 1.0).                 *)
(* The catalog handlers (create_content, get_content, delete_content,      *)
(* list_content, recommendations, admin_metrics) are modelled as one step  *)
(* per call on the state of the store at the time of the call; last holds  *)
(* the call just answered.                                                 *)
(***************************************************************************)
EXTENDS Integers, Sequences, FiniteSets, TLC

\* ---------------------------------------------------------------- bounds
\* the number of requests the clients send in one behaviour
MaxCalls == 4
\* the number of content documents created in one behaviour
MaxContent == 2

\* the requests in progress at the same time (threads of the server)
Reqs == {1, 2}
\* the uid and content_id strings the requests are sent with
Uids == {"u1", "u2"}
Cids == {"c1", "c2"}

\* WatchEntry.progress: Field(ge=0, le=1), in tenths
ProgressMin == 0
ProgressMax == 10
\* the progress values requests are sent with: -0.1, 0, 1, 1.5
Progresses == {ProgressMin - 1, ProgressMin, ProgressMax, ProgressMax + 5}

VARIABLES db, userprofile, req, resp, calls, pair, overlap,
          content, clock, made, last

uservars == <<userprofile, req, resp, calls, pair, overlap>>
catvars == <<content, clock, made, last>>
vars == <<db, userprofile, req, resp, calls, pair, overlap,
          content, clock, made, last>>

\* ------------------------------------------------------------- documents
\* the call answered last: handler, arguments, HTTP status, response body
NoCall == [op |-> "none", arg |-> <<>>, status |-> 0, body |-> <<>>]

Call(op, arg, status, body) ==
    [op |-> op, arg |-> arg, status |-> status, body |-> body]

NoDoc == [_id |-> 0, uid |-> "", display_name |-> "None", avatar_url |-> "None",
          favorites |-> <<>>, history |-> <<>>, preferences |-> <<>>]

\* UserProfileOut(uid=uid).model_dump()
UserProfileOut(uid) ==
    [uid |-> uid, display_name |-> "None", avatar_url |-> "None",
     favorites |-> <<>>, history |-> <<>>, preferences |-> <<>>]

Range(s) == {s[i] : i \in 1..Len(s)}

\* all the orders a Python set can be listed in: list(favs)
ListsOf(S) == {s \in [1..Cardinality(S) -> S] : Range(s) = S}

\* db[coll].find_one({"uid": uid}): position of the first match, 0 if none
find_one(coll, uid) ==
    IF \E i \in 1..Len(coll) : coll[i].uid = uid
    THEN CHOOSE i \in 1..Len(coll) :
            /\ coll[i].uid = uid
            /\ \A j \in 1..(i - 1) : coll[j].uid # uid
    ELSE 0

\* create_document(collection, data): insert_one, the store assigns _id
create_document(coll, data) ==
    Append(coll, [_id |-> Len(coll) + 1, uid |-> data.uid,
                  display_name |-> data.display_name,
                  avatar_url |-> data.avatar_url,
                  favorites |-> data.favorites, history |-> data.history,
                  preferences |-> data.preferences])

\* a write that adds to the stored list instead of replacing it
update_one_favorites_merge(coll, uid, value) ==
    LET i == find_one(coll, uid)
    IN  IF i = 0 THEN coll
        ELSE [coll EXCEPT ![i] = [@ EXCEPT !.favorites =
                 @ \o SelectSeq(value, LAMBDA c : c \notin {@[k] : k \in 1..Len(@)})]]

\* db[coll].update_one({"uid": uid}, {"$set": {field: value}})
update_one_favorites(coll, uid, value) ==
    LET i == find_one(coll, uid)
    IN  IF i = 0 THEN coll
        ELSE [coll EXCEPT ![i] = [@ EXCEPT !.favorites = value]]

\* a write of the history that also empties the favorites
update_one_history_document(coll, uid, value) ==
    LET i == find_one(coll, uid)
    IN  IF i = 0 THEN coll
        ELSE [coll EXCEPT ![i] = [@ EXCEPT !.history = value, !.favorites = <<>>]]

update_one_history(coll, uid, value) ==
    LET i == find_one(coll, uid)
    IN  IF i = 0 THEN coll
        ELSE [coll EXCEPT ![i] = [@ EXCEPT !.history = value]]

\* ------------------------------------------------------ handler helpers
\* a toggle that never removes
ToggleFavsAddOnly(favorites, content_id) ==
    {favorites[i] : i \in 1..Len(favorites)} \cup {content_id}

\* toggle_favorite, lines 175-181: the new set and the action
ToggleFavs(favorites, content_id) ==
    LET favs == Range(favorites)
    IN  IF content_id \in favs THEN favs \ {content_id}
        ELSE favs \cup {content_id}

\* a toggle that appends to the stored list without looking at it
NewFavoritesAppend(favorites, content_id) ==
    {Append(favorites, content_id)}

\* line 182: list(favs), the lists the new set can be written as
NewFavorites(favorites, content_id) ==
    ListsOf(ToggleFavs(favorites, content_id))

\* the two answers swapped
ToggleActionSwapped(favorites, content_id) ==
    IF content_id \in {favorites[i] : i \in 1..Len(favorites)}
    THEN "added" ELSE "removed"

ToggleAction(favorites, content_id) ==
    IF content_id \in Range(favorites) THEN "removed" ELSE "added"

\* update_history, lines 196-205: first match overwritten in place, else append
RECURSIVE ScanHistory(_, _, _, _)
ScanHistory(history, i, content_id, progress) ==
    IF i > Len(history)
    THEN Append(history, [content_id |-> content_id, progress |-> progress])
    ELSE IF history[i].content_id = content_id
         THEN [history EXCEPT ![i] = [@ EXCEPT !.progress = progress]]
         ELSE ScanHistory(history, i + 1, content_id, progress)

\* an update that always appends
UpsertHistoryAppend(history, content_id, progress) ==
    Append(history, [content_id |-> content_id, progress |-> progress])

\* an update that moves the entry to the end instead of keeping its place
UpsertHistoryMoveToEnd(history, content_id, progress) ==
    Append(SelectSeq(history, LAMBDA h : h.content_id # content_id),
           [content_id |-> content_id, progress |-> progress])

UpsertHistory(history, content_id, progress) ==
    ScanHistory(history, 1, content_id, progress)

\* a validation without the lower limit
WatchEntryValidNoLower(progress) == progress <= ProgressMax

\* WatchEntry validation: Field(ge=0, le=1)
WatchEntryValid(progress) == progress >= ProgressMin /\ progress <= ProgressMax

\* a view that answers with the defaults instead of the stored values
ProfileViewDefaults(prof) == UserProfileOut(prof.uid)

\* get_user, lines 159-166: the projected view of a stored document
ProfileView(prof) ==
    [uid |-> prof.uid, display_name |-> prof.display_name,
     avatar_url |-> prof.avatar_url, favorites |-> prof.favorites,
     history |-> prof.history, preferences |-> prof.preferences]

\* ------------------------------------------------------- request state
NoReq == [pc |-> "idle", op |-> "none", uid |-> "", content_id |-> "",
          progress |-> 0, prof |-> NoDoc]
NoResp == [status |-> 0, action |-> "none", body |-> NoDoc]
NoPair == [uid |-> "", content_id |-> "", base |-> {}, acts |-> <<>>, live |-> FALSE]

Response(status, action, body) ==
    [status |-> status, action |-> action, body |-> body]

Present(uid) == db = "store" /\ find_one(userprofile, uid) # 0
Absent(uid) == db = "store" /\ find_one(userprofile, uid) = 0

\* the document find_one returns for uid
Stored(uid) == userprofile[find_one(userprofile, uid)]
FavSet(coll, uid) == Range(coll[find_one(coll, uid)].favorites)
History(coll, uid) == coll[find_one(coll, uid)].history

\* history variables of the properties: a write to uid's profile by r ends the
\* undisturbed toggle pairs of the other requests on uid ...
Disturb(r, uid, p) ==
    [s \in Reqs |-> IF s # r /\ p[s].uid = uid THEN NoPair ELSE p[s]]

\* ... and is recorded by every request that has read the same field of uid
\* and not written it yet
Overlapped(r, uid, o) ==
    [s \in Reqs |-> IF s # r /\ req[s].pc = "update" /\ req[s].uid = uid
                       /\ req[s].op = req[r].op
                    THEN o[s] \cup {r} ELSE o[s]]

Init ==
    /\ db \in {"none", "store"}
    /\ userprofile = <<>>
    /\ req = [r \in Reqs |-> NoReq]
    /\ resp = [r \in Reqs |-> NoResp]
    /\ calls = 0
    /\ pair = [r \in Reqs |-> NoPair]
    /\ overlap = [r \in Reqs |-> {}]
    /\ content = <<>>
    /\ clock = 0
    /\ made = 0
    /\ last = NoCall

\* ------------------------------------------------------------ requests
Arrive(r, op, uid, content_id, progress) ==
    /\ req[r].pc = "idle"
    /\ calls < MaxCalls
    /\ calls' = calls + 1
    /\ req' = [req EXCEPT ![r] = [pc |-> "find", op |-> op, uid |-> uid,
                                  content_id |-> content_id,
                                  progress |-> progress, prof |-> NoDoc]]
    /\ resp' = [resp EXCEPT ![r] = NoResp]
    /\ overlap' = [overlap EXCEPT ![r] = {}]
    /\ pair' = [pair EXCEPT ![r] =
                  IF /\ op = "toggle_favorite" /\ @.live /\ @.uid = uid
                     /\ @.content_id = content_id /\ Len(@.acts) = 1
                  THEN @ ELSE NoPair]
    /\ UNCHANGED <<catvars, db, userprofile>>

request_get_user(r) ==
    \E uid \in Uids : Arrive(r, "get_user", uid, "", 0)

request_toggle_favorite(r) ==
    \E uid \in Uids, content_id \in Cids :
        Arrive(r, "toggle_favorite", uid, content_id, 0)

\* the body is validated against WatchEntry before the handler is called
request_update_history(r) ==
    \E uid \in Uids, content_id \in Cids, progress \in Progresses :
        IF WatchEntryValid(progress)
        THEN Arrive(r, "update_history", uid, content_id, progress)
        ELSE /\ req[r].pc = "idle"
             /\ calls < MaxCalls
             /\ calls' = calls + 1
             /\ req' = [req EXCEPT ![r] = [pc |-> "idle", op |-> "update_history",
                                           uid |-> uid, content_id |-> content_id,
                                           progress |-> progress, prof |-> NoDoc]]
             /\ resp' = [resp EXCEPT ![r] = Response(422, "none", NoDoc)]
             /\ overlap' = [overlap EXCEPT ![r] = {}]
             /\ pair' = [pair EXCEPT ![r] = NoPair]
             /\ UNCHANGED <<catvars, db, userprofile>>

Reply(r, status, action, body) ==
    /\ req' = [req EXCEPT ![r] = [@ EXCEPT !.pc = "idle"]]
    /\ resp' = [resp EXCEPT ![r] = Response(status, action, body)]

\* ------------------------------------------------------------- get_user
\* a get_user that answers the default profile when there is no store
get_user_find_degraded(r) ==
    /\ req[r].pc = "find" /\ req[r].op = "get_user"
    /\ IF db = "none"
       THEN Reply(r, 200, "none", UserProfileOut(req[r].uid))
       ELSE LET i == find_one(userprofile, req[r].uid)
            IN  IF i = 0
                THEN /\ req' = [req EXCEPT ![r] = [@ EXCEPT !.pc = "insert"]]
                     /\ UNCHANGED resp
                ELSE Reply(r, 200, "none", ProfileView(userprofile[i]))
    /\ UNCHANGED <<catvars, db, userprofile, calls, pair, overlap>>

get_user_find(r) ==
    /\ req[r].pc = "find" /\ req[r].op = "get_user"
    /\ IF db = "none"
       THEN Reply(r, 500, "none", NoDoc)
       ELSE LET i == find_one(userprofile, req[r].uid)
            IN  IF i = 0
                THEN /\ req' = [req EXCEPT ![r] = [@ EXCEPT !.pc = "insert"]]
                     /\ UNCHANGED resp
                ELSE Reply(r, 200, "none", ProfileView(userprofile[i]))
    /\ UNCHANGED <<catvars, db, userprofile, calls, pair, overlap>>

get_user_insert(r) ==
    /\ req[r].pc = "insert" /\ req[r].op = "get_user"
    /\ userprofile' = create_document(userprofile, UserProfileOut(req[r].uid))
    /\ req' = [req EXCEPT ![r] = [@ EXCEPT !.pc = "refind"]]
    /\ pair' = Disturb(r, req[r].uid, pair)
    /\ UNCHANGED <<catvars, db, resp, calls, overlap>>

get_user_refind(r) ==
    /\ req[r].pc = "refind" /\ req[r].op = "get_user"
    /\ Reply(r, 200, "none", ProfileView(Stored(req[r].uid)))
    /\ UNCHANGED <<catvars, db, userprofile, calls, pair, overlap>>

\* ------------------------------------------------------ toggle_favorite
toggle_favorite_find(r) ==
    /\ req[r].pc = "find" /\ req[r].op = "toggle_favorite"
    /\ IF db = "none"
       THEN Reply(r, 500, "none", NoDoc) /\ pair' = [pair EXCEPT ![r] = NoPair]
       ELSE LET i == find_one(userprofile, req[r].uid)
            IN  IF i = 0
                THEN /\ Reply(r, 404, "none", NoDoc)
                     /\ pair' = [pair EXCEPT ![r] = NoPair]
                ELSE /\ req' = [req EXCEPT ![r] =
                                  [@ EXCEPT !.pc = "update", !.prof = userprofile[i]]]
                     /\ pair' = [pair EXCEPT ![r] =
                                  IF @.live THEN @
                                  ELSE [uid |-> req[r].uid,
                                        content_id |-> req[r].content_id,
                                        base |-> Range(userprofile[i].favorites),
                                        acts |-> <<>>, live |-> TRUE]]
                     /\ UNCHANGED resp
    /\ UNCHANGED <<catvars, db, userprofile, calls, overlap>>

toggle_favorite_update(r) ==
    /\ req[r].pc = "update" /\ req[r].op = "toggle_favorite"
    /\ LET action == ToggleAction(req[r].prof.favorites, req[r].content_id)
       IN  /\ \E value \in NewFavorites(req[r].prof.favorites, req[r].content_id) :
                userprofile' = update_one_favorites(userprofile, req[r].uid, value)
           /\ Reply(r, 200, action, NoDoc)
           /\ pair' = [Disturb(r, req[r].uid, pair) EXCEPT ![r] =
                         IF @.live THEN [@ EXCEPT !.acts = Append(@, action)] ELSE @]
    /\ overlap' = Overlapped(r, req[r].uid, overlap)
    /\ UNCHANGED <<catvars, db, calls>>

\* ------------------------------------------------------- update_history
\* an update_history that creates the missing profile as get_user does
update_history_find_autocreate(r) ==
    /\ req[r].pc = "find" /\ req[r].op = "update_history"
    /\ IF db = "none"
       THEN Reply(r, 500, "none", NoDoc) /\ UNCHANGED userprofile
       ELSE LET i == find_one(userprofile, req[r].uid)
            IN  IF i = 0
                THEN /\ userprofile' = create_document(userprofile,
                                                       UserProfileOut(req[r].uid))
                     /\ req' = [req EXCEPT ![r] =
                                  [@ EXCEPT !.pc = "update",
                                            !.prof = userprofile'[Len(userprofile')]]]
                     /\ UNCHANGED resp
                ELSE /\ req' = [req EXCEPT ![r] =
                                  [@ EXCEPT !.pc = "update", !.prof = userprofile[i]]]
                     /\ UNCHANGED <<resp, userprofile>>
    /\ UNCHANGED <<catvars, db, calls, pair, overlap>>

update_history_find(r) ==
    /\ req[r].pc = "find" /\ req[r].op = "update_history"
    /\ IF db = "none"
       THEN Reply(r, 500, "none", NoDoc)
       ELSE LET i == find_one(userprofile, req[r].uid)
            IN  IF i = 0
                THEN Reply(r, 404, "none", NoDoc)
                ELSE /\ req' = [req EXCEPT ![r] =
                                  [@ EXCEPT !.pc = "update", !.prof = userprofile[i]]]
                     /\ UNCHANGED resp
    /\ UNCHANGED <<catvars, db, userprofile, calls, pair, overlap>>

update_history_update(r) ==
    /\ req[r].pc = "update" /\ req[r].op = "update_history"
    /\ LET history == UpsertHistory(req[r].prof.history, req[r].content_id,
                                    req[r].progress)
       IN  userprofile' = update_one_history(userprofile, req[r].uid, history)
    /\ Reply(r, 200, "none", NoDoc)
    /\ pair' = Disturb(r, req[r].uid, pair)
    /\ overlap' = Overlapped(r, req[r].uid, overlap)
    /\ UNCHANGED <<catvars, db, calls>>

Next ==
    \E r \in Reqs :
        \/ request_get_user(r)
        \/ request_toggle_favorite(r)
        \/ request_update_history(r)
        \/ get_user_find(r)
        \/ get_user_insert(r)
        \/ get_user_refind(r)
        \/ toggle_favorite_find(r)
        \/ toggle_favorite_update(r)
        \/ update_history_find(r)
        \/ update_history_update(r)

Spec == Init /\ [][Next]_vars

TypeOK ==
    /\ db \in {"none", "store"}
    /\ calls \in 0..MaxCalls
    /\ \A r \in Reqs : req[r].pc \in {"idle", "find", "insert", "refind", "update"}


\* =============================================================== catalog
\* str(ObjectId): the string of the n-th id the store assigns
IdStr == <<"o1", "o2", "o3", "o4", "o5">>

\* the id strings requests are sent with: ids of documents, the first id in
\* upper-case hex digits, an id no document has, a string that is no id
IdStrings == {"o1", "o2", "O1", "o4", "zz"}

\* ObjectId.is_valid(s)
ObjectIdIsValid(s) == s = "O1" \/ \E n \in 1..Len(IdStr) : IdStr[n] = s

\* ObjectId(s), for a valid s: hex digits are read in either case
ObjectId(s) ==
    IF s = "O1" THEN 1 ELSE CHOOSE n \in 1..Len(IdStr) : IdStr[n] = s

\* the ContentIn bodies create_content is called with (payload.model_dump());
\* titles are sequences of characters
Payloads ==
    { [title |-> <<"A", "b">>, description |-> "None", type |-> "movie",
       genres |-> <<"drama">>, is_published |-> TRUE],
      [title |-> <<"c">>, description |-> "text", type |-> "series",
       genres |-> <<"comedy", "drama">>, is_published |-> TRUE],
      [title |-> <<"A", "b">>, description |-> "text", type |-> "movie",
       genres |-> <<"comedy">>, is_published |-> FALSE],
      [title |-> <<"c">>, description |-> "None", type |-> "movie",
       genres |-> <<>>, is_published |-> TRUE] }

\* create_document("content", data): insert_one with the creation time; the
\* store assigns _id
insert_content(coll, data, oid, t) ==
    Append(coll, data @@ [_id |-> oid, created_at |-> t])

\* to_id, lines 53-59
to_id(doc) ==
    IF "_id" \in DOMAIN doc
    THEN [f \in (DOMAIN doc \ {"_id"}) \cup {"id"} |->
            IF f = "id" THEN IdStr[doc._id] ELSE doc[f]]
    ELSE doc

\* a response model that answers the defaults of ContentIn
ContentOutDefaults(d) ==
    [f \in {"title", "description", "type", "genres", "is_published", "id"} |->
        IF f = "is_published" THEN TRUE ELSE d[f]]

\* response_model=ContentOut: the fields of ContentOut, defaults for the
\* missing ones, every other field dropped
ContentOut(d) ==
    [f \in {"title", "description", "type", "genres", "is_published", "id"} |->
        IF f \in DOMAIN d THEN d[f]
        ELSE IF f = "is_published" THEN TRUE ELSE "None"]

\* db["content"].find_one({"_id": oid}): position of the match, 0 if none
find_content(coll, oid) ==
    IF \E i \in 1..Len(coll) : coll[i]._id = oid
    THEN CHOOSE i \in 1..Len(coll) :
            /\ coll[i]._id = oid
            /\ \A j \in 1..(i - 1) : coll[j]._id # oid
    ELSE 0

\* db["content"].delete_one({"_id": oid}): the collection without the match
delete_one(coll, oid) ==
    LET i == find_content(coll, oid)
    IN  IF i = 0 THEN coll
        ELSE SubSeq(coll, 1, i - 1) \o SubSeq(coll, i + 1, Len(coll))

\* ------------------------------------------------------- create_content
create_content ==
    /\ made < MaxContent
    /\ \E payload \in Payloads :
          IF db = "none"
          THEN /\ last' = Call("create_content", payload, 500, <<>>)
               /\ UNCHANGED <<content, clock, made>>
          ELSE /\ content' = insert_content(content, payload, made + 1, clock + 1)
               /\ made' = made + 1
               /\ clock' = clock + 1
               /\ last' = Call("create_content", payload, 200,
                               [id |-> IdStr[made + 1]])
    /\ UNCHANGED <<uservars, db>>

\* ---------------------------------------------------------- get_content
get_content ==
    /\ \E content_id \in IdStrings :
          IF db = "none"
          THEN last' = Call("get_content", content_id, 500, <<>>)
          ELSE IF ~ObjectIdIsValid(content_id)
          THEN last' = Call("get_content", content_id, 404, <<>>)
          ELSE LET i == find_content(content, ObjectId(content_id))
               IN  IF i = 0
                   THEN last' = Call("get_content", content_id, 404, <<>>)
                   ELSE last' = Call("get_content", content_id, 200,
                                     ContentOut(to_id(content[i])))
    /\ UNCHANGED <<uservars, db, content, clock, made>>

\* ------------------------------------------------------- delete_content
\* a delete that answers success when nothing was deleted
delete_content_silent ==
    /\ \E content_id \in IdStrings :
          IF db = "none"
          THEN /\ last' = Call("delete_content", content_id, 500, <<>>)
               /\ UNCHANGED content
          ELSE IF ~ObjectIdIsValid(content_id)
          THEN /\ last' = Call("delete_content", content_id, 404, <<>>)
               /\ UNCHANGED content
          ELSE /\ content' = delete_one(content, ObjectId(content_id))
               /\ last' = Call("delete_content", content_id, 200,
                               [deleted |-> TRUE])
    /\ UNCHANGED <<uservars, db, clock, made>>

delete_content ==
    /\ \E content_id \in IdStrings :
          IF db = "none"
          THEN /\ last' = Call("delete_content", content_id, 500, <<>>)
               /\ UNCHANGED content
          ELSE IF ~ObjectIdIsValid(content_id)
          THEN /\ last' = Call("delete_content", content_id, 404, <<>>)
               /\ UNCHANGED content
          ELSE LET after == delete_one(content, ObjectId(content_id))
               IN  /\ content' = after
                   /\ IF Len(content) - Len(after) = 0
                      THEN last' = Call("delete_content", content_id, 404, <<>>)
                      ELSE last' = Call("delete_content", content_id, 200,
                                        [deleted |-> TRUE])
    /\ UNCHANGED <<uservars, db, clock, made>>

\* --------------------------------------------------------- list_content
\* limit: int = Query(default=20, le=100)
MaxLimit == 100

\* the query parameters list_content is called with; an omitted or empty
\* q is <<>>, an omitted or empty genre or type is ""
Qs == {<<>>, <<"a", "B">>, <<".">>}
Genres == {"", "comedy"}
Types == {"", "movie"}
Skips == {0, 1}
Limits == {0, 1, MaxLimit, MaxLimit + 1}

\* a document of the content collection written with the Content schema of
\* schemas.py, which has no is_published field
LegacyDoc ==
    [_id |-> 5, title |-> <<"c">>, description |-> "None", type |-> "movie",
     genres |-> <<"comedy">>, created_at |-> 0]

Lower(c) == IF c = "A" THEN "a" ELSE IF c = "B" THEN "b" ELSE c

\* {"$regex": q, "$options": "i"}: q is a pattern, "." stands for any
\* character, letters match in either case, the match may start anywhere
RegexSearch(q, title) ==
    \E start \in 1..(Len(title) - Len(q) + 1) :
        \A k \in 1..Len(q) :
            q[k] = "." \/ Lower(q[k]) = Lower(title[start + k - 1])

\* a filter that forgets the published flag
MatchesAny(doc, filt) ==
    /\ (filt.q # <<>> => RegexSearch(filt.q, doc.title))
    /\ (filt.genre # "" => \E i \in 1..Len(doc.genres) : doc.genres[i] = filt.genre)
    /\ (filt.type # "" => doc.type = filt.type)
    /\ (filt.genres_in # {} =>
           \E i \in 1..Len(doc.genres) : doc.genres[i] \in filt.genres_in)

\* the filter document of find: is_published True, and title, genres, type
\* when given (lines 106-113, 215 and 226)
Matches(doc, filt) ==
    /\ "is_published" \in DOMAIN doc /\ doc.is_published = TRUE
    /\ (filt.q # <<>> => RegexSearch(filt.q, doc.title))
    /\ (filt.genre # "" => \E i \in 1..Len(doc.genres) : doc.genres[i] = filt.genre)
    /\ (filt.type # "" => doc.type = filt.type)
    /\ (filt.genres_in # {} =>
           \E i \in 1..Len(doc.genres) : doc.genres[i] \in filt.genres_in)

find(coll, filt) == SelectSeq(coll, LAMBDA doc : Matches(doc, filt))

\* cursor.sort("created_at", -1): latest first, equal times in stored order
RECURSIVE SortCreatedDesc(_)
SortCreatedDesc(docs) ==
    IF docs = <<>> THEN <<>>
    ELSE LET d == docs[Len(docs)]
             sorted == SortCreatedDesc(SubSeq(docs, 1, Len(docs) - 1))
             k == Cardinality({i \in 1..Len(sorted) :
                                 sorted[i].created_at >= d.created_at})
         IN  SubSeq(sorted, 1, k) \o <<d>> \o SubSeq(sorted, k + 1, Len(sorted))

\* cursor.skip(n), n >= 0
SkipDocs(docs, n) == SubSeq(docs, n + 1, Len(docs))

\* a limit that takes 0 as a count
LimitDocsStrict(docs, n) ==
    SubSeq(docs, 1, IF n < Len(docs) THEN (IF n < 0 THEN 0 ELSE n) ELSE Len(docs))

\* cursor.limit(n): 0 is no limit, a negative n is the limit -n
LimitDocs(docs, n) ==
    LET m == IF n < 0 THEN 0 - n ELSE n
    IN  IF n = 0 THEN docs
        ELSE SubSeq(docs, 1, IF m < Len(docs) THEN m ELSE Len(docs))

\* [to_id(x) for x in cursor] through response_model=List[ContentOut]
ContentList(docs) == [i \in 1..Len(docs) |-> ContentOut(to_id(docs[i]))]

\* a limit above 100 taken as 100
list_content_clamped(q, genre, type, skip, limit) ==
    IF db = "none" THEN [status |-> 200, body |-> <<>>]
    ELSE LET filt == [q |-> q, genre |-> genre, type |-> type, genres_in |-> {}]
         IN  [status |-> 200,
              body |-> ContentList(LimitDocs(SkipDocs(
                          SortCreatedDesc(find(content, filt)), skip),
                          IF limit > MaxLimit THEN MaxLimit ELSE limit))]

\* list_content, lines 96-115: the status and the body of the response
list_content_response(q, genre, type, skip, limit) ==
    IF limit > MaxLimit THEN [status |-> 422, body |-> <<>>]
    ELSE IF db = "none" THEN [status |-> 200, body |-> <<>>]
    ELSE LET filt == [q |-> q, genre |-> genre, type |-> type, genres_in |-> {}]
         IN  [status |-> 200,
              body |-> ContentList(LimitDocs(SkipDocs(
                          SortCreatedDesc(find(content, filt)), skip), limit))]

list_content ==
    /\ \E q \in Qs, genre \in Genres, type \in Types,
          skip \in Skips, limit \in Limits :
          LET res == list_content_response(q, genre, type, skip, limit)
          IN  last' = Call("list_content",
                           [q |-> q, genre |-> genre, type |-> type,
                            skip |-> skip, limit |-> limit],
                           res.status, res.body)
    /\ UNCHANGED <<uservars, db, content, clock, made>>

\* the state of the store a server can start with: the content collection
\* is one of seeds, the userprofile collection one of profiles
InitCatalog(seeds, profiles) ==
    /\ db \in {"none", "store"}
    /\ userprofile \in profiles
    /\ req = [r \in Reqs |-> NoReq]
    /\ resp = [r \in Reqs |-> NoResp]
    /\ calls = 0
    /\ pair = [r \in Reqs |-> NoPair]
    /\ overlap = [r \in Reqs |-> {}]
    /\ content \in seeds
    /\ clock = 0
    /\ made = 0
    /\ last = NoCall

InitList == InitCatalog({<<>>, <<LegacyDoc>>}, {<<>>})

NextList == create_content \/ list_content

SpecList == InitList /\ [][NextList]_vars

\* ------------------------------------------------------ recommendations
\* the query parameters recommendations is called with; an omitted or empty
\* uid is ""; limit: int = 12 has no bound
RecUids == {"", "u1", "u2"}
RecLimits == {-1, 0, 1, MaxLimit + 1}

\* the favorites a stored profile can hold: ids of content, ids no document
\* has (any longer), and a string that is no id
FavIds == {"o1", "o2", "zz"}
FavLists ==
    {<<>>} \cup {<<a>> : a \in FavIds}
           \cup {f \in {<<a, b>> : a \in FavIds, b \in FavIds} : f[1] # f[2]}

\* the profile of uid as get_user stored it, with the favorites that
\* toggle_favorite wrote since
ProfileWith(uid, favs) ==
    [create_document(<<>>, UserProfileOut(uid))[1] EXCEPT !.favorites = favs]

\* recommendations that answer nothing for a uid without a profile
recommendations_profile_needed(uid, limit) ==
    IF db = "none" THEN [status |-> 200, body |-> <<>>]
    ELSE LET p == IF uid # "" THEN find_one(userprofile, uid) ELSE 0
             fav_ids == IF p = 0 THEN {} ELSE Range(userprofile[p].favorites)
             oids == {ObjectId(i) : i \in {j \in fav_ids : ObjectIdIsValid(j)}}
             fav_docs == SelectSeq(content, LAMBDA doc : doc._id \in oids)
             genres == IF fav_ids = {} THEN {}
                       ELSE UNION {Range(fav_docs[i].genres) :
                                      i \in 1..Len(fav_docs)}
             filt == [q |-> <<>>, genre |-> "", type |-> "", genres_in |-> genres]
         IN  [status |-> 200,
              body |-> IF uid # "" /\ p = 0 THEN <<>>
                       ELSE ContentList(LimitDocs(
                               SortCreatedDesc(find(content, filt)), limit))]

\* recommendations without the test for an empty genre set: the genres
\* filter is always given
recommendations_always_filtered(uid, limit) ==
    IF db = "none" THEN [status |-> 200, body |-> <<>>]
    ELSE LET p == IF uid # "" THEN find_one(userprofile, uid) ELSE 0
             fav_ids == IF p = 0 THEN {} ELSE Range(userprofile[p].favorites)
             oids == {ObjectId(i) : i \in {j \in fav_ids : ObjectIdIsValid(j)}}
             fav_docs == SelectSeq(content, LAMBDA doc : doc._id \in oids)
             genres == UNION {Range(fav_docs[i].genres) : i \in 1..Len(fav_docs)}
             sel == SelectSeq(content, LAMBDA doc :
                      /\ "is_published" \in DOMAIN doc /\ doc.is_published = TRUE
                      /\ (fav_ids # {} =>
                            \E i \in 1..Len(doc.genres) : doc.genres[i] \in genres))
         IN  [status |-> 200,
              body |-> ContentList(LimitDocs(SortCreatedDesc(sel), limit))]

\* recommendations, lines 210-228: the status and the body of the response
recommendations_response(uid, limit) ==
    IF db = "none" THEN [status |-> 200, body |-> <<>>]
    ELSE LET p == IF uid # "" THEN find_one(userprofile, uid) ELSE 0
             fav_ids == IF p = 0 THEN {} ELSE Range(userprofile[p].favorites)
             oids == {ObjectId(i) : i \in {j \in fav_ids : ObjectIdIsValid(j)}}
             fav_docs == SelectSeq(content, LAMBDA doc : doc._id \in oids)
             genres == IF fav_ids = {} THEN {}
                       ELSE UNION {Range(fav_docs[i].genres) :
                                      i \in 1..Len(fav_docs)}
             filt == [q |-> <<>>, genre |-> "", type |-> "", genres_in |-> genres]
         IN  [status |-> 200,
              body |-> ContentList(LimitDocs(
                          SortCreatedDesc(find(content, filt)), limit))]

recommendations ==
    /\ \E uid \in RecUids, limit \in RecLimits :
          LET res == recommendations_response(uid, limit)
          IN  last' = Call("recommendations", [uid |-> uid, limit |-> limit],
                           res.status, res.body)
    /\ UNCHANGED <<uservars, db, content, clock, made>>

InitRecommend ==
    InitCatalog({<<>>, <<LegacyDoc>>},
                {<<>>} \cup {<<ProfileWith("u1", favs)>> : favs \in FavLists})

NextRecommend == create_content \/ delete_content \/ recommendations

SpecRecommend == InitRecommend /\ [][NextRecommend]_vars

\* -------------------------------------------------------- admin_metrics
\* admin_metrics, lines 231-240: the body of the response
admin_metrics_response ==
    IF db = "none" THEN [content_count |-> 0, users |-> 0, favorites |-> 0]
    ELSE LET favs[i \in 0..Len(userprofile)] ==
                 IF i = 0 THEN 0 ELSE favs[i - 1] + Len(userprofile[i].favorites)
         IN  [content_count |-> Len(content), users |-> Len(userprofile),
              favorites |-> favs[Len(userprofile)]]

admin_metrics ==
    /\ last' = Call("admin_metrics", <<>>, 200, admin_metrics_response)
    /\ UNCHANGED <<uservars, db, content, clock, made>>

\* a server started without a store: db is None for good
InitNoStore == Init /\ db = "none"

\* without a store every handler answers before its first store call, so
\* the requests do not interleave: they are taken one at a time
NextNoStore ==
    \/ \E r \in {1} :
          \/ request_get_user(r)
          \/ request_toggle_favorite(r)
          \/ request_update_history(r)
          \/ get_user_find(r)
          \/ toggle_favorite_find(r)
          \/ update_history_find(r)
    \/ create_content
    \/ get_content
    \/ delete_content
    \/ list_content
    \/ recommendations
    \/ admin_metrics

SpecNoStore == InitNoStore /\ [][NextNoStore]_vars

NextContent == create_content \/ get_content \/ delete_content

SpecContent == Init /\ [][NextContent]_vars

\* ------------------------------------------------------------ properties
\* request r takes the step that leaves position pc of handler op
Steps(r, op, pc) == req[r].pc = pc /\ req[r].op = op /\ req'[r].pc # pc

NoDuplicates(s) == \A i, j \in 1..Len(s) : s[i] = s[j] => i = j

\* C1: the userprofile collection never holds two documents with the same
\* uid, whatever the interleaving of the handlers.
AtMostOneProfilePerUid ==
    \A i, j \in 1..Len(userprofile) :
        userprofile[i].uid = userprofile[j].uid => i = j

\* C2: two toggle_favorite calls with the same uid and content_id, one right
\* after the other with no other write to that uid's profile since the first
\* call read it, leave the stored favorites set as it was before the first
\* call, and return added then removed (removed then added for a member).
ToggleTwiceRestores ==
    \A r \in Reqs :
        (pair[r].live /\ Len(pair[r].acts) = 2) =>
            /\ FavSet(userprofile, pair[r].uid) = pair[r].base
            /\ pair[r].acts = IF pair[r].content_id \in pair[r].base
                              THEN <<"removed", "added">>
                              ELSE <<"added", "removed">>

ToggleTwiceDone ==
    \E r \in Reqs :
        /\ pair[r].live /\ Len(pair[r].acts) = 2
        /\ pair[r].content_id \in pair[r].base
        /\ req[r].pc = "idle" /\ resp[r].status = 200

\* C3: the write of a toggle_favorite call stores exactly the set the call
\* computed from its own read (its snapshot with its content_id toggled),
\* whatever another call wrote since that read: the last writer wins.
LastWriterWins ==
    [][\A r \in Reqs :
         Steps(r, "toggle_favorite", "update") =>
            LET snapshot == Range(req[r].prof.favorites)
                c == req[r].content_id
            IN  FavSet(userprofile', req[r].uid) =
                    (snapshot \ {c}) \cup ({c} \ snapshot)]_vars

\* both calls read the same profile, s wrote first, r wrote last: s's toggle
\* of another content_id is lost
LostToggle ==
    \E r, s \in Reqs :
        /\ s \in overlap[r]
        /\ req[r].pc = "idle" /\ req[r].op = "toggle_favorite" /\ resp[r].status = 200
        /\ req[s].pc = "idle" /\ req[s].op = "toggle_favorite" /\ resp[s].status = 200
        /\ req[s].uid = req[r].uid /\ req[s].content_id # req[r].content_id
        /\ req[s].prof = req[r].prof
        /\ resp[s].action = "added"
        /\ req[s].content_id \notin FavSet(userprofile, req[r].uid)
        /\ req[r].content_id \in FavSet(userprofile, req[r].uid)

\* C4 (as claimed): the returned action is the change the write makes to the
\* stored favorites: added only if content_id was not stored right before
\* the write and is stored right after, removed only if it was and is not.
ActionIsChangeOfStored ==
    [][\A r \in Reqs :
         Steps(r, "toggle_favorite", "update") =>
            LET before == FavSet(userprofile, req[r].uid)
                after == FavSet(userprofile', req[r].uid)
                c == req[r].content_id
            IN  /\ resp'[r].action = "added" => (c \notin before /\ c \in after)
                /\ resp'[r].action = "removed" => (c \in before /\ c \notin after)]_vars

\* C4 (amended): the returned action is relative to the favorites the call
\* read: added only if content_id was not in the set it read and is stored
\* right after its write, removed only if it was in the set it read and is
\* not stored right after its write.
ActionIsChangeOfSnapshot ==
    [][\A r \in Reqs :
         Steps(r, "toggle_favorite", "update") =>
            LET snapshot == Range(req[r].prof.favorites)
                after == FavSet(userprofile', req[r].uid)
                c == req[r].content_id
            IN  /\ resp'[r].action \in {"added", "removed"}
                /\ resp'[r].action = "added" => (c \notin snapshot /\ c \in after)
                /\ resp'[r].action = "removed" => (c \in snapshot /\ c \notin after)]_vars

\* a call answered "added" although another call had stored the same
\* content_id between its read and its write
AddedTwice ==
    \E r, s \in Reqs :
        /\ s \in overlap[r]
        /\ req[r].pc = "idle" /\ req[r].op = "toggle_favorite"
        /\ resp[r].action = "added" /\ resp[s].action = "added"
        /\ req[s].op = "toggle_favorite" /\ req[s].pc = "idle"
        /\ req[s].uid = req[r].uid /\ req[s].content_id = req[r].content_id
        /\ req[r].content_id \in FavSet(userprofile, req[r].uid)

\* C5: no profile ever holds two history entries with the same content_id;
\* after an update_history write the history has exactly one entry for its
\* content_id, and a call repeating an entry that is already stored with
\* the same progress leaves the stored history unchanged.
HistoryKeyedByContentId ==
    /\ [](\A d \in 1..Len(userprofile) :
            \A i, j \in 1..Len(userprofile[d].history) :
                userprofile[d].history[i].content_id =
                    userprofile[d].history[j].content_id => i = j)
    /\ [][\A r \in Reqs :
            Steps(r, "update_history", "update") =>
               LET old == History(userprofile, req[r].uid)
                   new == History(userprofile', req[r].uid)
                   e == [content_id |-> req[r].content_id,
                         progress |-> req[r].progress]
               IN  /\ Cardinality({i \in 1..Len(new) :
                                    new[i].content_id = e.content_id}) = 1
                   /\ e \in Range(new)
                   /\ (e \in Range(old) /\ req[r].prof.history = old) => new = old]_vars

\* the same entry sent twice: the second call found it stored and left the
\* history as it was
HistoryRepeated ==
    \E r \in Reqs :
        /\ req[r].pc = "idle" /\ req[r].op = "update_history" /\ resp[r].status = 200
        /\ [content_id |-> req[r].content_id, progress |-> req[r].progress]
              \in Range(req[r].prof.history)
        /\ History(userprofile, req[r].uid) = req[r].prof.history
        /\ Len(req[r].prof.history) = 2

\* C6: the stored favorites of a profile never list a content_id twice.
FavoritesHaveNoDuplicates ==
    \A d \in 1..Len(userprofile) : NoDuplicates(userprofile[d].favorites)

TwoFavoritesStored ==
    \E d \in 1..Len(userprofile) :
        /\ Len(userprofile[d].favorites) = 2
        /\ \E r \in Reqs : /\ req[r].op = "toggle_favorite" /\ req[r].pc = "idle"
                           /\ resp[r].action = "added"
                           /\ req[r].uid = userprofile[d].uid

\* C7: update_history is an upsert keyed by content_id: when the history the
\* call read has an entry with the content_id, the history it writes has the
\* same length and the same entries at the same positions except that this
\* entry carries the new progress; otherwise it writes the history it read
\* with the new entry appended at the end.
UpdateHistoryIsUpsert ==
    [][\A r \in Reqs :
         Steps(r, "update_history", "update") =>
            LET old == req[r].prof.history
                new == History(userprofile', req[r].uid)
                c == req[r].content_id
                e == [content_id |-> c, progress |-> req[r].progress]
            IN  IF \E i \in 1..Len(old) : old[i].content_id = c
                THEN /\ Len(new) = Len(old)
                     /\ \A i \in 1..Len(old) :
                          new[i] = IF old[i].content_id = c THEN e ELSE old[i]
                ELSE new = old \o <<e>>]_vars

\* an entry that is not the last one overwritten in place with a new progress
OverwrittenInPlace ==
    \E r \in Reqs :
        LET old == req[r].prof.history
            new == History(userprofile, req[r].uid)
        IN  /\ req[r].pc = "idle" /\ req[r].op = "update_history"
            /\ resp[r].status = 200
            /\ Len(old) = 2 /\ old[1].content_id = req[r].content_id
            /\ old[1].progress # req[r].progress
            /\ Len(new) = 2 /\ new[1].progress = req[r].progress
            /\ new[2] = old[2]

\* C8: toggle_favorite and update_history for a uid with no profile answer
\* 404 and leave the userprofile collection as it is.
AbsentProfileIsNotFound ==
    [][\A r \in Reqs :
         (/\ req[r].pc = "find" /\ req'[r].pc # "find"
          /\ req[r].op \in {"toggle_favorite", "update_history"}
          /\ Absent(req[r].uid)) =>
            /\ resp'[r].status = 404
            /\ req'[r].pc = "idle"
            /\ userprofile' = userprofile]_vars

NotFoundAnswered ==
    \E r, s \in Reqs :
        /\ req[r].pc = "idle" /\ resp[r].status = 404
        /\ req[r].op = "toggle_favorite" /\ Absent(req[r].uid)
        /\ req[s].pc = "idle" /\ resp[s].status = 404
        /\ req[s].op = "update_history" /\ Absent(req[s].uid)
        /\ Len(userprofile) > 0

\* C9: get_user on an absent uid inserts a profile with empty favorites,
\* history and preferences, after which the uid is present; get_user on a
\* present uid writes nothing and returns the stored uid, display_name,
\* avatar_url, favorites, history and preferences.
GetUserCreatesOnceThenReads ==
    [][\A r \in Reqs :
         /\ Steps(r, "get_user", "insert") =>
               /\ Len(userprofile') = Len(userprofile) + 1
               /\ SubSeq(userprofile', 1, Len(userprofile)) = userprofile
               /\ LET d == userprofile'[Len(userprofile')]
                  IN  /\ d.uid = req[r].uid
                      /\ d.favorites = <<>> /\ d.history = <<>>
                      /\ d.preferences = <<>>
               /\ find_one(userprofile', req[r].uid) # 0
         /\ (Steps(r, "get_user", "find") /\ Absent(req[r].uid)) =>
               req'[r].pc = "insert"
         /\ ((Steps(r, "get_user", "find") \/ Steps(r, "get_user", "refind"))
                /\ Present(req[r].uid)) =>
               LET d == Stored(req[r].uid)
                   b == resp'[r].body
               IN  /\ userprofile' = userprofile
                   /\ resp'[r].status = 200
                   /\ b.uid = d.uid /\ b.display_name = d.display_name
                   /\ b.avatar_url = d.avatar_url /\ b.favorites = d.favorites
                   /\ b.history = d.history /\ b.preferences = d.preferences]_vars

\* a get_user that found the profile present and returned its stored data
ExistingProfileReturned ==
    \E r \in Reqs :
        /\ req[r].pc = "idle" /\ req[r].op = "get_user" /\ resp[r].status = 200
        /\ resp[r].body.favorites # <<>>
        /\ resp[r].body.favorites = Stored(req[r].uid).favorites
        /\ resp[r].body.uid = req[r].uid

\* C10: an update_history request whose progress is below 0 or above 1 is
\* answered 422 without the handler running and without any change to the
\* store; progress 0 and progress 1 reach the handler; no stored history
\* entry ever has a progress outside [0,1].
ProgressOutOfRangeRejected ==
    /\ [](\A d \in 1..Len(userprofile) :
            \A i \in 1..Len(userprofile[d].history) :
                /\ userprofile[d].history[i].progress >= 0
                /\ userprofile[d].history[i].progress <= 10)
    /\ [][\A r \in Reqs :
            (req[r].pc = "idle" /\ calls' = calls + 1
                /\ req'[r].op = "update_history" /\ resp'[r] # resp[r]) =>
               IF req'[r].progress < 0 \/ req'[r].progress > 10
               THEN /\ resp'[r].status = 422
                    /\ req'[r].pc = "idle"
                    /\ userprofile' = userprofile
               ELSE /\ req'[r].pc = "find"
                    /\ resp'[r].status # 422]_vars

\* -0.1 and 1.5 were rejected while 0 and 1 are stored
ProgressRejected ==
    \E r, s \in Reqs :
        /\ resp[r].status = 422 /\ req[r].progress = -1
        /\ resp[s].status = 422 /\ req[s].progress = 15
        /\ \E d \in 1..Len(userprofile) :
              /\ Len(userprofile[d].history) = 1
              /\ userprofile[d].history[1].progress \in {0, 10}

\* the call answered in this step is a call of handler op
Answers(op) == last'.op = op /\ (last' # last \/ content' # content)

\* C16: with a store, get_content and delete_content answer 404 for an id
\* string that is no id, delete_content answers 404 for an id no document
\* has, and in these cases the content collection stays as it is;
\* delete_content for the id of a document removes that document only and
\* answers deleted=true.
BadIdIsNotFound ==
    [][(db = "store" /\ (Answers("get_content") \/ Answers("delete_content"))) =>
         LET id == last'.arg
             hit == {i \in 1..Len(content) :
                        \/ IdStr[content[i]._id] = id
                        \/ (id = "O1" /\ content[i]._id = 1)}
         IN  /\ id = "zz" => (last'.status = 404 /\ content' = content)
             /\ (last'.op = "delete_content" /\ id # "zz" /\ hit = {}) =>
                   (last'.status = 404 /\ content' = content)
             /\ (last'.op = "delete_content" /\ hit # {}) =>
                   /\ last'.status = 200 /\ last'.body.deleted = TRUE
                   /\ Cardinality(hit) = 1
                   /\ Len(content') = Len(content) - 1
                   /\ \A i \in 1..Len(content) :
                        i \notin hit =>
                           \E j \in 1..Len(content') : content'[j] = content[i]
                   /\ \A j \in 1..Len(content') : \A i \in hit :
                        content'[j]._id # content[i]._id
             /\ last'.status # 500]_vars

\* one of two documents deleted, the other one still stored
OneDocumentDeleted ==
    /\ last.op = "delete_content" /\ last.status = 200
    /\ made = 2 /\ Len(content) = 1

\* C18: get_content called with the id create_content has just returned
\* answers the created content: every field of the input with its value, and
\* the id.
CreatedContentIsReturned ==
    [][(/\ last.op = "create_content" /\ last.status = 200
        /\ Answers("get_content") /\ last'.arg = last.body.id) =>
          /\ last'.status = 200
          /\ DOMAIN last'.body = DOMAIN last.arg \cup {"id"}
          /\ \A f \in DOMAIN last.arg : last'.body[f] = last.arg[f]
          /\ last'.body.id = last.body.id]_vars

\* the document created last, an unpublished one, fetched by its id
CreatedContentFetched ==
    /\ last.op = "get_content" /\ last.status = 200
    /\ made > 0 /\ last.body.id = IdStr[made]
    /\ last.body.is_published = FALSE
    /\ last.body.description = "text"

LiteralSearch(q, title) ==
    \E start \in 1..(Len(title) - Len(q) + 1) :
        \A k \in 1..Len(q) : Lower(q[k]) = Lower(title[start + k - 1])

\* C17: list_content answers exactly the documents at positions
\* [skip, skip+limit) of the published documents, latest created first,
\* whose title contains q as a literal string ignoring case, whose genres
\* hold the genre and whose type is the type, each only when given.
ListIsFilteredPage ==
    [][(Answers("list_content") /\ db = "store" /\ last'.arg.limit <= MaxLimit) =>
         LET a == last'.arg
             sel == SelectSeq(content, LAMBDA doc :
                      /\ "is_published" \in DOMAIN doc /\ doc.is_published = TRUE
                      /\ (a.q # <<>> => LiteralSearch(a.q, doc.title))
                      /\ (a.genre # "" =>
                            \E i \in 1..Len(doc.genres) : doc.genres[i] = a.genre)
                      /\ (a.type # "" => doc.type = a.type))
             sorted == SortCreatedDesc(sel)
             to == IF a.skip + a.limit < Len(sorted)
                   THEN a.skip + a.limit ELSE Len(sorted)
         IN  /\ last'.status = 200
             /\ last'.body = ContentList(SubSeq(sorted, a.skip + 1, to))]_vars

\* the part of C17 that the code keeps: the same with a limit of at least
\* one and a q that holds no pattern character
ListIsFilteredPageOfPlainQuery ==
    [][(/\ Answers("list_content") /\ db = "store"
        /\ last'.arg.limit <= MaxLimit /\ last'.arg.limit >= 1
        /\ \A k \in 1..Len(last'.arg.q) : last'.arg.q[k] # ".") =>
         LET a == last'.arg
             sel == SelectSeq(content, LAMBDA doc :
                      /\ "is_published" \in DOMAIN doc /\ doc.is_published = TRUE
                      /\ (a.q # <<>> => LiteralSearch(a.q, doc.title))
                      /\ (a.genre # "" =>
                            \E i \in 1..Len(doc.genres) : doc.genres[i] = a.genre)
                      /\ (a.type # "" => doc.type = a.type))
             sorted == SortCreatedDesc(sel)
             to == IF a.skip + a.limit < Len(sorted)
                   THEN a.skip + a.limit ELSE Len(sorted)
         IN  /\ last'.status = 200
             /\ last'.body = ContentList(SubSeq(sorted, a.skip + 1, to))]_vars

\* q = "." answered with a document whose title holds no "."
PatternMatched ==
    /\ last.op = "list_content" /\ last.status = 200
    /\ last.arg.q = <<".">> /\ last.body # <<>>
    /\ \A i \in 1..Len(last.body) :
          \A k \in 1..Len(last.body[i].title) : last.body[i].title[k] # "."

\* the stored document with this id string has is_published true
IsPublished(id) ==
    \E i \in 1..Len(content) :
        /\ IdStr[content[i]._id] = id
        /\ "is_published" \in DOMAIN content[i]
        /\ content[i].is_published = TRUE

\* C11: whatever the content and the profiles stored and whatever the
\* parameters, every document list_content or recommendations returns is a
\* stored document whose is_published is true; a document without the field
\* is never returned.
NeverReturnsUnpublished ==
    /\ \A q \in Qs, genre \in Genres, type \in Types,
          skip \in Skips, limit \in Limits :
          LET body == list_content_response(q, genre, type, skip, limit).body
          IN  \A k \in 1..Len(body) : IsPublished(body[k].id)
    /\ \A uid \in RecUids, limit \in RecLimits :
          LET body == recommendations_response(uid, limit).body
          IN  \A k \in 1..Len(body) : IsPublished(body[k].id)

\* recommendations answered for a user with favorites, and list_content
\* with genre comedy has an answer, while the store holds a comedy without
\* the field and an unpublished comedy
UnpublishedHeldBack ==
    /\ last.op = "recommendations" /\ last.arg.uid = "u1"
    /\ last.body = recommendations_response("u1", last.arg.limit).body
    /\ last.body # <<>>
    /\ userprofile # <<>> /\ userprofile[1].favorites # <<>>
    /\ list_content_response(<<>>, "comedy", "", 0, 0).body # <<>>
    /\ \E i \in 1..Len(content) :
          /\ "is_published" \notin DOMAIN content[i]
          /\ "comedy" \in Range(content[i].genres)
    /\ \E i \in 1..Len(content) :
          /\ "is_published" \in DOMAIN content[i]
          /\ content[i].is_published = FALSE
          /\ "comedy" \in Range(content[i].genres)

\* request r has been answered as a call of handler op
Answered(r, op) == req[r].pc = "idle" /\ req[r].op = op /\ resp[r] # NoResp

\* C13 as stated: without a store list_content, get_content, get_user,
\* recommendations and admin_metrics answer an empty or all-zero result and
\* do not fail; create_content, delete_content, toggle_favorite and
\* update_history answer a server error.
NoStoreReadsDegrade ==
    db = "none" =>
        /\ last.op \in {"list_content", "recommendations"} =>
              (last.status = 200 /\ last.body = <<>>)
        /\ last.op = "admin_metrics" =>
              /\ last.status = 200
              /\ last.body = [content_count |-> 0, users |-> 0, favorites |-> 0]
        /\ last.op = "get_content" => last.status = 200
        /\ last.op \in {"create_content", "delete_content"} => last.status = 500
        /\ \A r \in Reqs :
              /\ Answered(r, "get_user") => resp[r].status = 200
              /\ Answered(r, "toggle_favorite") => resp[r].status = 500
              /\ (Answered(r, "update_history") /\ WatchEntryValid(req[r].progress))
                    => resp[r].status = 500

\* C13: without a store list_content (with a limit it accepts) and
\* recommendations answer the empty list and admin_metrics answers all
\* zeros; get_content and get_user answer 500, and so do create_content,
\* delete_content, toggle_favorite and update_history; a request that
\* fails validation (limit above 100, progress out of range) is answered
\* 422; nothing is stored.
NoStoreReadsDegradeExceptById ==
    db = "none" =>
        /\ last.op = "list_content" =>
              /\ last.body = <<>>
              /\ last.status = IF last.arg.limit > MaxLimit THEN 422 ELSE 200
        /\ last.op = "recommendations" => (last.status = 200 /\ last.body = <<>>)
        /\ last.op = "admin_metrics" =>
              /\ last.status = 200
              /\ last.body = [content_count |-> 0, users |-> 0, favorites |-> 0]
        /\ last.op \in {"get_content", "create_content", "delete_content"} =>
              last.status = 500
        /\ \A r \in Reqs :
              /\ Answered(r, "get_user") => resp[r].status = 500
              /\ Answered(r, "toggle_favorite") => resp[r].status = 500
              /\ Answered(r, "update_history") =>
                    resp[r].status =
                        IF WatchEntryValid(req[r].progress) THEN 500 ELSE 422
        /\ content = <<>> /\ userprofile = <<>>

\* without a store, get_content and get_user have both answered 500
NoStoreByIdFailed ==
    /\ db = "none"
    /\ last.op = "get_content" /\ last.status = 500
    /\ Answered(1, "get_user") /\ resp[1].status = 500

\* the call answered in this step takes the fallback path of
\* recommendations: no uid, no profile for the uid, or no favorites
FallbackCall ==
    LET uid == last'.arg.uid
        p == find_one(userprofile, uid)
    IN  uid = "" \/ p = 0 \/ userprofile[p].favorites = <<>>

FavoriteGenres(p) ==
    {g \in {"drama", "comedy"} :
        \E k \in 1..Len(userprofile[p].favorites), i \in 1..Len(content) :
            /\ \/ IdStr[content[i]._id] = userprofile[p].favorites[k]
               \/ (userprofile[p].favorites[k] = "O1" /\ content[i]._id = 1)
            /\ g \in Range(content[i].genres)}

\* the published documents with a genre in G, latest first
PublishedWithGenre(G) ==
    SortCreatedDesc(SelectSeq(content, LAMBDA doc :
        /\ "is_published" \in DOMAIN doc /\ doc.is_published = TRUE
        /\ Range(doc.genres) \cap G # {}))

\* C15: for a user whose favorites name documents with genres, the union G
\* not empty, recommendations answers the first limit published documents
\* with a genre in G, latest first, favorited ones included.
RecommendIsFirstLimitOfGenres ==
    [][(/\ Answers("recommendations") /\ db = "store"
        /\ find_one(userprofile, last'.arg.uid) # 0
        /\ FavoriteGenres(find_one(userprofile, last'.arg.uid)) # {}) =>
         LET limit == last'.arg.limit
             all == PublishedWithGenre(
                        FavoriteGenres(find_one(userprofile, last'.arg.uid)))
         IN  /\ last'.status = 200
             /\ last'.body = ContentList(SubSeq(all, 1,
                                IF limit < Len(all) THEN limit ELSE Len(all)))]_vars

\* the part of C15 that the code keeps: the same for a limit of at least one
RecommendIsFirstLimitOfGenresFromOne ==
    [][(/\ Answers("recommendations") /\ db = "store"
        /\ last'.arg.limit >= 1
        /\ find_one(userprofile, last'.arg.uid) # 0
        /\ FavoriteGenres(find_one(userprofile, last'.arg.uid)) # {}) =>
         LET limit == last'.arg.limit
             all == PublishedWithGenre(
                        FavoriteGenres(find_one(userprofile, last'.arg.uid)))
         IN  /\ last'.status = 200
             /\ last'.body = ContentList(SubSeq(all, 1,
                                IF limit < Len(all) THEN limit ELSE Len(all)))]_vars

\* limit 0 answered with documents, for a user with a favorite with genres
LimitZeroAnswered ==
    /\ last.op = "recommendations" /\ last.arg.limit = 0 /\ last.arg.uid = "u1"
    /\ last.body # <<>>
    /\ userprofile # <<>> /\ FavoriteGenres(1) # {}
    /\ last.body = recommendations_response("u1", 0).body

\* favorite id names no genre: it is no id, or the id of no stored
\* document, or the id of a document without genres
Unresolved(id) ==
    \/ ~ObjectIdIsValid(id)
    \/ \A i \in 1..Len(content) :
          content[i]._id = ObjectId(id) => content[i].genres = <<>>

\* C19: recommendations answers 200 whatever the favorites hold; for a user
\* with favorites that are all malformed, or ids of no stored document, or
\* ids of documents without genres, it answers the published documents,
\* latest first, under the limit, as on the fallback path; delete_content
\* leaves the userprofile collection as it is.
UnresolvedFavoritesFallBack ==
    [][/\ Answers("recommendations") => last'.status = 200
       /\ (/\ Answers("recommendations") /\ db = "store"
           /\ find_one(userprofile, last'.arg.uid) # 0
           /\ Stored(last'.arg.uid).favorites # <<>>
           /\ \A k \in 1..Len(Stored(last'.arg.uid).favorites) :
                 Unresolved(Stored(last'.arg.uid).favorites[k])) =>
             LET published == SelectSeq(content, LAMBDA doc :
                     "is_published" \in DOMAIN doc /\ doc.is_published = TRUE)
             IN  last'.body = ContentList(LimitDocs(
                                 SortCreatedDesc(published), last'.arg.limit))
       /\ Answers("delete_content") => userprofile' = userprofile]_vars

\* recommendations answered with documents for a user whose favorites are
\* the id of a deleted document and a string that is no id
DeletedFavoriteAnswered ==
    /\ last.op = "recommendations" /\ last.arg.uid = "u1" /\ last.body # <<>>
    /\ userprofile # <<>>
    /\ Range(userprofile[1].favorites) = {"o1", "zz"}
    /\ made = 2 /\ Len(content) = 1 /\ content[1]._id = 2
    /\ content[1].genres # <<>>
    /\ last.body = recommendations_response("u1", last.arg.limit).body

\* C20: the write of toggle_favorite changes the favorites of the profile
\* of its uid and nothing else in the collection, the write of
\* update_history changes the history of the profile of its uid and nothing
\* else; so whatever the order of the steps of a toggle_favorite and an
\* update_history on one uid, the favorites after the toggle's write are
\* the toggle of what it read, the history after the upsert's write is the
\* upsert of what it read, neither write undoes the other, and uid,
\* display_name, avatar_url and preferences stay as they are.
WritesOnlyItsField ==
    [][\A r \in Reqs :
         LET i == find_one(userprofile, req[r].uid)
         IN  /\ Steps(r, "toggle_favorite", "update") =>
                  /\ Len(userprofile') = Len(userprofile)
                  /\ \A d \in 1..Len(userprofile) :
                        d # i => userprofile'[d] = userprofile[d]
                  /\ i # 0 =>
                       /\ userprofile[i] =
                            [userprofile'[i] EXCEPT
                                !.favorites = userprofile[i].favorites]
                       /\ Range(userprofile'[i].favorites) =
                            ToggleFavs(req[r].prof.favorites, req[r].content_id)
             /\ Steps(r, "update_history", "update") =>
                  /\ Len(userprofile') = Len(userprofile)
                  /\ \A d \in 1..Len(userprofile) :
                        d # i => userprofile'[d] = userprofile[d]
                  /\ i # 0 =>
                       /\ userprofile[i] =
                            [userprofile'[i] EXCEPT
                                !.history = userprofile[i].history]
                       /\ userprofile'[i].history =
                            UpsertHistory(req[r].prof.history, req[r].content_id,
                                          req[r].progress)]_vars

\* after one get_user, a toggle_favorite and an update_history on the same
\* uid that both read the new profile before either wrote: both are
\* answered and the profile holds the favorite and the history entry
InterleavedBothKept ==
    /\ calls = 3 /\ Len(userprofile) = 1
    /\ Answered(1, "toggle_favorite") /\ resp[1].status = 200
    /\ Answered(2, "update_history") /\ resp[2].status = 200
    /\ req[1].uid = req[2].uid /\ userprofile[1].uid = req[1].uid
    /\ req[1].prof.history = <<>> /\ req[2].prof.favorites = <<>>
    /\ userprofile[1].favorites = <<req[1].content_id>>
    /\ userprofile[1].history =
          <<[content_id |-> req[2].content_id, progress |-> req[2].progress]>>

====
